---- MODULE Spec2Model ----
(***************************************************************************)
(* Arivu Foods SCM: batch allocation (FIFO/FEFO), order assembly, pricing  *)
(* and alert scanning.  The repository holds two back ends over separate   *)
(* databases: the Django apps (inventory/, pricing/, alerts/) and the      *)
(* Flask app (backend/).  A behaviour of Spec runs one of them.            *)
(*                                                                         *)
(* Quantities are whole units, dates are day numbers, Today is the day     *)
(* timezone.now().date() / date.today() returns.                           *)
(***************************************************************************)
EXTENDS Integers, Sequences, FiniteSets, TLC

\* ---------------------------------------------------------------- bounds
MaxQty == 2        \* largest current_quantity of a batch
MaxReq == 3        \* largest quantity one request asks for
MaxOrders == 1     \* orders the Orders table may hold
MaxCalls == 1      \* calls each concurrent worker makes

Today == 1

Batches == {1, 2, 3}
Products == {1, 2}
Locations == {"MW", "DC"}
NoLocation == "none"
\* Expiration dates: today (no longer allocatable under FEFO) and three later days.
Dates == {Today, Today + 1, Today + 2, Today + 3}

\* ------------------------------------------------------------- variables
VARIABLES
    backend,      \* the application the behaviour runs: "django", "flask_api"
                  \* (backend/routes.py) or "flask_services" (backend/services.py)
    dj_batch,     \* Django table batches: batch_id -> row
    dj_inv,       \* Django table inventory: <<batch_id, location>> -> quantity_on_hand
    dj_result,    \* what the last Django service call returned, until delivered
    fl_batch,     \* Flask table Batches: batch_id -> row
    fl_inv,       \* Flask table Inventory: inventory_id -> row
    fl_orders,    \* Flask table Orders, in insertion order
    fl_items,     \* Flask table OrderItems, in insertion order
    fl_response,  \* what the last Flask call returned, until delivered
    tx,           \* concurrent Django workers: worker -> its call in progress
    granted,      \* history: batch_id -> quantity committed calls were granted
    pr_db,        \* Django pricing tables: the retailer's pricing row and the rules
    pr_result,    \* what the last pricing call returned, with its arguments
    dj_alerts,    \* Django table alerts, in insertion order
    fl_alerts,    \* Flask table Alerts, in insertion order
    al_last       \* the last alert operation run and the alerts it created

dj_vars == <<dj_batch, dj_inv, dj_result>>
fl_vars == <<fl_batch, fl_inv, fl_orders, fl_items, fl_response>>
conc_vars == <<tx, granted>>
pr_vars == <<pr_db, pr_result>>
al_vars == <<dj_alerts, fl_alerts, al_last>>
\* What the allocation and order operations never touch.
rest_vars == <<conc_vars, pr_vars, al_vars>>
vars == <<backend, dj_vars, fl_vars, rest_vars>>

\* ------------------------------------------------------------- helpers
\* An allocator that takes what is still needed whatever the batch holds.
TakeRemaining(a, b) == a

Min(a, b) == IF a <= b THEN a ELSE b

\* The total quantity of the rows of seq (order lines or order items) that
\* name product p.
RECURSIVE SumFor(_, _)
SumFor(seq, p) ==
    IF seq = <<>> THEN 0
    ELSE (IF Head(seq).product_id = p THEN Head(seq).quantity ELSE 0)
         + SumFor(Tail(seq), p)

RECURSIVE SumTaken(_)
SumTaken(allocations) ==
    IF allocations = <<>> THEN 0
    ELSE Head(allocations).qty + SumTaken(Tail(allocations))

\* The rows a query returns under ORDER BY: every enumeration of the set S in
\* which no row comes after one it sorts strictly before.  Rows that compare
\* equal have no defined order in SQL, so each such enumeration is a possible
\* answer.
OrderBy(S, before(_, _)) ==
    { s \in [1..Cardinality(S) -> S] :
        /\ \A i, j \in 1..Cardinality(S) : i # j => s[i] # s[j]
        /\ \A i, j \in 1..Cardinality(S) : i < j => ~before(s[j], s[i]) }

\* ===================================================== Django: inventory
\* inventory/services.py get_available_batches_fifo
dj_filter_fifo(batches, inv, product, location) ==
    { b \in Batches :
        /\ batches[b].product = product
        /\ batches[b].current_quantity > 0
        /\ batches[b].status = "in_stock"
        /\ (location # NoLocation =>
              /\ <<b, location>> \in DOMAIN inv
              /\ inv[<<b, location>>] > 0) }

\* The same batches newest-produced first.
get_available_batches_lifo(batches, inv, product, location) ==
    LET before(a, b) == batches[a].production_date > batches[b].production_date
    IN  OrderBy(dj_filter_fifo(batches, inv, product, location), before)

get_available_batches_fifo(batches, inv, product, location) ==
    LET before(a, b) == batches[a].production_date < batches[b].production_date
    IN  OrderBy(dj_filter_fifo(batches, inv, product, location), before)

\* inventory/services.py get_available_batches_fefo
dj_filter_fefo(batches, inv, product, location) ==
    { b \in Batches :
        /\ batches[b].product = product
        /\ batches[b].current_quantity > 0
        /\ batches[b].status = "in_stock"
        /\ batches[b].expiration_date > Today
        /\ (location # NoLocation =>
              /\ <<b, location>> \in DOMAIN inv
              /\ inv[<<b, location>>] > 0) }

\* The same batches, latest expiration first.
dj_latest_expiry_first(batches, inv, product, location) ==
    LET before(a, b) == batches[a].expiration_date > batches[b].expiration_date
    IN  OrderBy(dj_filter_fefo(batches, inv, product, location), before)

get_available_batches_fefo(batches, inv, product, location) ==
    LET before(a, b) == batches[a].expiration_date < batches[b].expiration_date
    IN  OrderBy(dj_filter_fefo(batches, inv, product, location), before)

\* The loop of allocate_inventory_fifo / allocate_inventory_fefo over the
\* batches from position i on, with remaining_quantity still to find.
RECURSIVE dj_walk(_, _, _, _)
dj_walk(batches, available, i, remaining) ==
    IF i > Len(available) \/ remaining <= 0 THEN <<>>
    ELSE LET b == available[i]
             allocation_quantity == Min(remaining, batches[b].current_quantity)
         IN  <<[batch |-> b, qty |-> allocation_quantity]>>
             \o dj_walk(batches, available, i + 1, remaining - allocation_quantity)

allocate_inventory_fifo(batches, available, requested) ==
    dj_walk(batches, available, 1, requested)

allocate_inventory_fefo(batches, available, requested) ==
    dj_walk(batches, available, 1, requested)

\* inventory/models.py Batch.can_fulfill_quantity / Batch.allocate_quantity on
\* the in-memory row: the new current_quantity that save() writes.
can_fulfill_quantity(row, quantity) == row.current_quantity >= quantity

allocate_quantity(row, quantity) ==
    IF can_fulfill_quantity(row, quantity)
    THEN [row EXCEPT !.current_quantity = @ - quantity]
    ELSE row

\* The "actually allocate" loop of fulfill_order_item: save every batch of
\* the plan from position i on.
RECURSIVE dj_apply(_, _, _)
dj_apply(batches, allocations, i) ==
    IF i > Len(allocations) THEN batches
    ELSE LET a == allocations[i]
         IN  dj_apply([batches EXCEPT ![a.batch] = allocate_quantity(@, a.qty)],
                      allocations, i + 1)

\* A result that reports the whole request as the shortage.
dj_fulfil_result_whole(allocations, requested) ==
    [success |-> SumTaken(allocations) >= requested,
     allocated_quantity |-> SumTaken(allocations),
     shortage |-> IF SumTaken(allocations) < requested THEN requested ELSE 0,
     allocations |-> allocations]

\* The dictionary fulfill_order_item returns for a plan.
dj_fulfil_result(allocations, requested) ==
    LET total_allocated == SumTaken(allocations)
    IN  IF total_allocated < requested
        THEN [success |-> FALSE, allocated_quantity |-> total_allocated,
              shortage |-> requested - total_allocated, allocations |-> allocations]
        ELSE [success |-> TRUE, allocated_quantity |-> total_allocated,
              shortage |-> 0, allocations |-> allocations]

NoResult == [kind |-> "none"]

\* inventory/services.py fulfill_order_item, one whole call.
fulfill_order_item(product, requested, location, method) ==
    /\ backend \in {"django", "django_locations"}
    /\ dj_result = NoResult
    /\ \E available \in (IF method = "fifo"
                         THEN get_available_batches_fifo(dj_batch, dj_inv, product, location)
                         ELSE get_available_batches_fefo(dj_batch, dj_inv, product, location)) :
         LET allocations == IF method = "fifo"
                            THEN allocate_inventory_fifo(dj_batch, available, requested)
                            ELSE allocate_inventory_fefo(dj_batch, available, requested)
             result == dj_fulfil_result(allocations, requested)
         IN  /\ dj_result' = [kind |-> "fulfil", product |-> product,
                              requested |-> requested, location |-> location,
                              method |-> method, available |-> available,
                              result |-> result]
             /\ dj_batch' = IF result.success
                            THEN dj_apply(dj_batch, allocations, 1)
                            ELSE dj_batch
    /\ UNCHANGED <<backend, dj_inv, fl_vars, rest_vars>>

DjFulfil ==
    \E product \in Products, requested \in 1..MaxReq,
       location \in Locations \cup {NoLocation}, method \in {"fifo", "fefo"} :
        fulfill_order_item(product, requested, location, method)

\* The caller takes the returned value; the next request can start.
DjReturn ==
    /\ backend \in {"django", "django_locations"}
    /\ dj_result # NoResult
    /\ dj_result' = NoResult
    /\ UNCHANGED <<backend, dj_batch, dj_inv, fl_vars, rest_vars>>

\* ================================================= Flask: services.py
\* backend/services.py InventoryService.allocate_inventory: the rows of the
\* Batch-Inventory join that pass the filter, as <<batch_id, inventory_id>>.
fl_joined(batch, inv, product_id) ==
    { r \in Batches \X DOMAIN inv :
        /\ inv[r[2]].batch_id = r[1]
        /\ batch[r[1]].product = product_id
        /\ batch[r[1]].status = "In Stock"
        /\ inv[r[2]].quantity_on_hand > 0 }

fl_available(batch, inv, product_id, method) ==
    LET before(a, b) ==
            IF method = "FEFO"
            THEN batch[a[1]].expiration_date < batch[b[1]].expiration_date
            ELSE batch[a[1]].production_date < batch[b[1]].production_date
    IN  OrderBy(fl_joined(batch, inv, product_id), before)

\* The loop of allocate_inventory over the rows from position k on: the
\* session's batches and inventory, what is still needed and the list built.
RECURSIVE fl_alloc_walk(_, _, _, _, _, _)
fl_alloc_walk(batch, inv, rows, k, remaining, allocated) ==
    IF k > Len(rows) \/ remaining <= 0
    THEN [batch |-> batch, inv |-> inv, remaining |-> remaining,
          allocated |-> allocated]
    ELSE LET b == rows[k][1]
             i == rows[k][2]
             available_quantity == Min(inv[i].quantity_on_hand, remaining)
         IN  IF available_quantity > 0
             THEN fl_alloc_walk(
                    [batch EXCEPT ![b].current_quantity = @ - available_quantity],
                    [inv EXCEPT ![i].quantity_on_hand = @ - available_quantity],
                    rows, k + 1, remaining - available_quantity,
                    Append(allocated, [batch |-> b, qty |-> available_quantity]))
             ELSE fl_alloc_walk(batch, inv, rows, k + 1, remaining, allocated)

\* "Commit the allocation": whether the session is committed or rolled back.
fl_alloc_commits(out) == out.allocated # <<>> /\ out.remaining <= 0

\* backend/services.py InventoryService.allocate_inventory, one whole call.
allocate_inventory(product_id, quantity_needed, method) ==
    /\ backend \in {"flask_services", "flask_locations"}
    /\ fl_response = NoResult
    /\ \E rows \in fl_available(fl_batch, fl_inv, product_id, method) :
         LET out == fl_alloc_walk(fl_batch, fl_inv, rows, 1, quantity_needed, <<>>)
             commit == rows # <<>> /\ fl_alloc_commits(out)
         IN  /\ fl_response' = [kind |-> "allocate", product_id |-> product_id,
                                quantity_needed |-> quantity_needed,
                                method |-> method, rows |-> rows,
                                committed |-> commit,
                                returned |-> IF commit THEN out.allocated ELSE <<>>]
             /\ fl_batch' = IF commit THEN out.batch ELSE fl_batch
             /\ fl_inv' = IF commit THEN out.inv ELSE fl_inv
    /\ UNCHANGED <<backend, dj_vars, fl_orders, fl_items, rest_vars>>

FlAllocate ==
    \E product_id \in Products, quantity_needed \in 0..MaxReq,
       method \in {"FIFO", "FEFO"} :
        allocate_inventory(product_id, quantity_needed, method)

\* =================================================== Flask: routes.py
\* The retailers and products the Flask database holds (rows of Retailers,
\* PricingTiers and Products; nothing modelled here changes them).  Retailer 1
\* has a pricing tier, retailer 2 has none.
Retailers == {1, 2}
HasTier(r) == r = 1
TierMin(r) == 20
TierMax(r) == 25
Mrp(p) == IF p = 1 THEN 100 ELSE 45

\* create_order's "simple pricing calculation".  Percentages are carried
\* doubled and money multiplied by 200, so that (min + max) / 2 and
\* base_price * (1 - discount_percentage / 100) stay whole numbers.
fl_order_discount_x2(r) == IF HasTier(r) THEN TierMin(r) + TierMax(r) ELSE 2 * 20

fl_order_unit_price_x200(r, p) == Mrp(p) * (200 - fl_order_discount_x2(r))

\* The query without its product filter: in-stock batches of any product.
fl_order_batches_any_product(batch, product_id) ==
    LET before(a, b) ==
            \/ batch[a].expiration_date < batch[b].expiration_date
            \/ /\ batch[a].expiration_date = batch[b].expiration_date
               /\ batch[a].production_date < batch[b].production_date
    IN  OrderBy({ b \in Batches : /\ batch[b].status = "In Stock"
                                  /\ batch[b].current_quantity > 0 }, before)

\* create_order's query for one line: the batches it will walk, in order.
fl_order_batches(batch, product_id) ==
    LET before(a, b) ==
            \/ batch[a].expiration_date < batch[b].expiration_date
            \/ /\ batch[a].expiration_date = batch[b].expiration_date
               /\ batch[a].production_date < batch[b].production_date
    IN  OrderBy({ b \in Batches : /\ batch[b].product = product_id
                                  /\ batch[b].status = "In Stock"
                                  /\ batch[b].current_quantity > 0 }, before)

\* Inventory.query.filter_by(batch_id=...).first(): the row updated for a
\* batch, as a set that is empty when the batch has no inventory row.  (No
\* state of the Flask database holds two rows for one batch: create_batch and
\* the seed scripts insert exactly one.)
fl_first_inventory(inv, b) ==
    LET rows == { i \in DOMAIN inv : inv[i].batch_id = b }
    IN  IF rows = {} THEN {}
        ELSE {CHOOSE i \in rows : \A j \in rows : i <= j}

\* The inner loop of create_order over the batches from position k on.  S is
\* the session: its batches, inventory, the order items added, the running
\* total and what the line still needs.
RECURSIVE fl_order_walk(_, _, _, _, _, _)
fl_order_walk(S, order_id, retailer_id, product_id, available, k) ==
    IF k > Len(available) \/ S.remaining <= 0 THEN S
    ELSE LET b == available[k]
             take_quantity == Min(S.remaining, S.batch[b].current_quantity)
             unit_price == fl_order_unit_price_x200(retailer_id, product_id)
             line_total == unit_price * take_quantity
             order_item == [order_id |-> order_id, product_id |-> product_id,
                            batch_id |-> b, quantity |-> take_quantity,
                            unit_price |-> Mrp(product_id),
                            line_total_x200 |-> line_total,
                            discount_percentage_x2 |-> fl_order_discount_x2(retailer_id),
                            actual_sales_price_x200 |-> unit_price]
             rec == fl_first_inventory(S.inv, b)
         IN  fl_order_walk(
               [S EXCEPT
                  !.batch = [S.batch EXCEPT ![b].current_quantity = @ - take_quantity],
                  !.inv = [i \in DOMAIN S.inv |->
                             IF i \in rec
                             THEN [S.inv[i] EXCEPT !.quantity_on_hand = @ - take_quantity]
                             ELSE S.inv[i]],
                  !.items = Append(S.items, order_item),
                  !.total = S.total + line_total,
                  !.remaining = S.remaining - take_quantity],
               order_id, retailer_id, product_id, available, k + 1)

\* "Process order items" from line n on: every session the loop can end in,
\* with ok = FALSE where a line was left short (the 400 branch).
RECURSIVE fl_order_lines(_, _, _, _, _)
fl_order_lines(S, order_id, retailer_id, lines, n) ==
    IF n > Len(lines) THEN {[S EXCEPT !.ok = TRUE]}
    ELSE UNION {
           LET T == fl_order_walk([S EXCEPT !.remaining = lines[n].quantity],
                                  order_id, retailer_id, lines[n].product_id,
                                  available, 1)
           IN  IF T.remaining > 0
               THEN {[T EXCEPT !.ok = FALSE, !.short = lines[n].product_id]}
               ELSE fl_order_lines(T, order_id, retailer_id, lines, n + 1)
           : available \in fl_order_batches(S.batch, lines[n].product_id) }

\* What a Numeric(12, 2) or Numeric(10, 2) column holds of an amount given in
\* 1/200ths: the amount to the nearest cent.  An amount that ends on half a
\* cent goes up on a database that rounds half away from zero and to the even
\* cent where the value is formatted from a float with '%.2f' (every such
\* amount here is a multiple of 1/8 and so an exact float).
RoundingModes == {"half_up", "half_even"}

Numeric_2(mode, amount_x200) ==
    LET cents == amount_x200 \div 2
    IN  IF amount_x200 % 2 = 0 THEN amount_x200
        ELSE IF mode = "half_up" \/ cents % 2 = 1 THEN 2 * (cents + 1)
        ELSE 2 * cents

\* The OrderItems rows as the table holds them.
fl_stored_items(mode, items) ==
    [i \in 1..Len(items) |->
        [items[i] EXCEPT !.line_total_x200 = Numeric_2(mode, @),
                         !.actual_sales_price_x200 = Numeric_2(mode, @)]]

\* A session that is kept where db.session.rollback() would drop it.
keep_session(stored, session) == session

\* db.session.rollback(): the stored table stays, the session's copy is dropped.
rollback(stored, session) == stored

\* What a request may ask for: one or two lines of (product, quantity).  The
\* quantity is Decimal(str(item_data['quantity'])), whatever number the client
\* sent: zero and negative numbers reach the loop like any other.
OrderLines ==
    LET Line == [product_id : Products, quantity : (0 - 1)..MaxReq]
    IN  { <<l>> : l \in Line } \cup { <<l, m>> : l \in Line, m \in Line }

\* backend/routes.py create_order, one whole request.  The session starts
\* from the stored tables; commit stores the session, rollback drops it with
\* the order row flushed at the start.
create_order(retailer_id, lines) ==
    /\ backend = "flask_api"
    /\ fl_response = NoResult
    /\ Len(fl_orders) < MaxOrders
    /\ LET order_id == Len(fl_orders) + 1
           S0 == [batch |-> fl_batch, inv |-> fl_inv, items |-> <<>>, total |-> 0,
                  remaining |-> 0, ok |-> TRUE, short |-> 0]
       IN  \E S \in fl_order_lines(S0, order_id, retailer_id, lines, 1),
              mode \in RoundingModes :
             IF S.ok
             THEN /\ fl_batch' = S.batch
                  /\ fl_inv' = S.inv
                  /\ fl_orders' = Append(fl_orders,
                                         [order_id |-> order_id,
                                          retailer_id |-> retailer_id,
                                          total_amount_x200 |->
                                              Numeric_2(mode, S.total)])
                  /\ fl_items' = fl_items \o fl_stored_items(mode, S.items)
                  /\ fl_response' = [kind |-> "order", status |-> 201,
                                     retailer_id |-> retailer_id, lines |-> lines,
                                     order_id |-> order_id]
             ELSE /\ fl_batch' = rollback(fl_batch, S.batch)
                  /\ fl_inv' = rollback(fl_inv, S.inv)
                  /\ fl_orders' = rollback(fl_orders,
                                           Append(fl_orders,
                                                  [order_id |-> order_id,
                                                   retailer_id |-> retailer_id,
                                                   total_amount_x200 |-> 0]))
                  /\ fl_items' = rollback(fl_items, fl_items \o S.items)
                  /\ fl_response' = [kind |-> "order", status |-> 400,
                                     retailer_id |-> retailer_id, lines |-> lines,
                                     short |-> S.short, tentative |-> S.items]
    /\ UNCHANGED <<backend, dj_vars, rest_vars>>

FlCreateOrder ==
    \E retailer_id \in Retailers, lines \in OrderLines :
        create_order(retailer_id, lines)

\* The caller takes the response; the next request can start.
FlReturn ==
    /\ backend \in {"flask_api", "flask_services", "flask_batches", "flask_locations"}
    /\ fl_response # NoResult
    /\ fl_response' = NoResult
    /\ UNCHANGED <<backend, dj_vars, fl_batch, fl_inv, fl_orders, fl_items, rest_vars>>

\* ------------------------------------------------------------------ Init
\* Batch ids are labels handed out in production order; the product and the
\* expiration date of a batch are whatever the catalogue says.  Batch 3 is
\* the odd one: it may be of the other product, expire today or have left
\* the stock.
ProductionDate(b) == IF b = 3 THEN Today - 1 ELSE Today - 2

StoredAt(b) == IF b = 2 THEN "DC" ELSE "MW"

InitDjango ==
    /\ dj_batch \in [Batches -> [product : Products,
                                 production_date : {Today - 3, Today - 2, Today - 1},
                                 expiration_date : Dates,
                                 current_quantity : {MaxQty},
                                 status : {"in_stock", "dispatched"}]]
    /\ \A b \in Batches : /\ dj_batch[b].production_date = ProductionDate(b)
                          /\ (b # 3 => /\ dj_batch[b].product = 1
                                       /\ dj_batch[b].status = "in_stock"
                                       /\ dj_batch[b].expiration_date > Today)
    /\ dj_inv = [k \in {<<b, StoredAt(b)>> : b \in Batches} |->
                    dj_batch[k[1]].current_quantity]
    /\ dj_result = NoResult

\* create_batch and the seed scripts store one inventory row per batch, with
\* quantity_on_hand equal to the batch's current_quantity.  A batch keeps the
\* status 'In Stock' when its expiration date arrives: nothing in the Flask
\* application changes it.
InitFlask ==
    /\ fl_batch \in [Batches -> [product : Products,
                                 production_date : {Today - 3, Today - 2, Today - 1},
                                 expiration_date : {Today, Today + 1},
                                 current_quantity : {MaxQty},
                                 status : {"In Stock"}]]
    /\ \A b \in Batches : /\ fl_batch[b].production_date = ProductionDate(b)
                          /\ fl_batch[b].product = (IF b = 3 THEN 2 ELSE 1)
                          /\ (b = 3 => fl_batch[b].expiration_date = Today + 1)
    /\ fl_inv = [i \in Batches |-> [batch_id |-> i, location |-> "MW",
                                    quantity_on_hand |-> fl_batch[i].current_quantity,
                                    reorder_point |-> 1]]
    /\ fl_orders = <<>>
    /\ fl_items = <<>>
    /\ fl_response = NoResult

\* The application that is not running keeps its tables empty.
IdleDjango ==
    /\ dj_batch = <<>>
    /\ dj_inv = <<>>
    /\ dj_result = NoResult

IdleFlask ==
    /\ fl_batch = <<>>
    /\ fl_inv = <<>>
    /\ fl_orders = <<>>
    /\ fl_items = <<>>
    /\ fl_response = NoResult

Workers == {1, 2}

IdleConc ==
    /\ tx = [w \in Workers |-> [pc |-> "idle", calls |-> 0]]
    /\ granted = [b \in Batches |-> 0]

IdlePricing ==
    /\ pr_db = <<>>
    /\ pr_result = NoResult

IdleAlerts ==
    /\ dj_alerts = <<>>
    /\ fl_alerts = <<>>
    /\ al_last = NoResult

Init ==
    /\ \/ backend = "django" /\ InitDjango /\ IdleFlask
       \/ backend \in {"flask_api", "flask_services"} /\ InitFlask /\ IdleDjango
    /\ IdleConc
    /\ IdlePricing
    /\ IdleAlerts

Next ==
    \/ DjFulfil
    \/ DjReturn
    \/ FlAllocate
    \/ FlCreateOrder
    \/ FlReturn

Spec == Init /\ [][Next]_vars

\* ============================================ Django: concurrent requests
\* Two workers serve fulfill_order_item at once.  The function runs inside
\* transaction.atomic and takes no lock (no select_for_update, no F()
\* expression, no retry): it reads the batches into memory, plans on those
\* objects, and save() writes back the quantity computed from them.  The
\* transaction's writes reach the table when it commits, as they do under the
\* READ COMMITTED isolation Django's database back ends default to.

\* The objects the call holds in memory: the rows it read, by batch id.
tx_rows(batches, available) ==
    [b \in {available[i] : i \in 1..Len(available)} |-> batches[b]]

\* The "actually allocate" loop on the objects in memory: each save() writes
\* the row of the object, from position i of the plan on.
RECURSIVE tx_save(_, _, _, _)
tx_save(batches, rows, allocations, i) ==
    IF i > Len(allocations) THEN batches
    ELSE LET a == allocations[i]
         IN  tx_save(IF can_fulfill_quantity(rows[a.batch], a.qty)
                     THEN [batches EXCEPT ![a.batch] = allocate_quantity(rows[a.batch], a.qty)]
                     ELSE batches,
                     rows, allocations, i + 1)

\* What the plan's saved allocations add to the quantities granted so far.
RECURSIVE tx_grant(_, _, _, _)
tx_grant(g, rows, allocations, i) ==
    IF i > Len(allocations) THEN g
    ELSE LET a == allocations[i]
         IN  tx_grant(IF can_fulfill_quantity(rows[a.batch], a.qty)
                      THEN [g EXCEPT ![a.batch] = @ + a.qty]
                      ELSE g,
                      rows, allocations, i + 1)

\* fulfill_order_item up to the end of its planning: the queries and the
\* allocate_inventory_fifo / allocate_inventory_fefo call.
tx_plan(w, product, requested, location, method) ==
    /\ backend = "django_workers"
    /\ tx[w].pc = "idle"
    /\ tx[w].calls < MaxCalls
    /\ \E available \in (IF method = "fifo"
                         THEN get_available_batches_fifo(dj_batch, dj_inv, product, location)
                         ELSE get_available_batches_fefo(dj_batch, dj_inv, product, location)) :
         LET allocations == IF method = "fifo"
                            THEN allocate_inventory_fifo(dj_batch, available, requested)
                            ELSE allocate_inventory_fefo(dj_batch, available, requested)
             result == dj_fulfil_result(allocations, requested)
         IN  tx' = [tx EXCEPT ![w] =
                      [pc |-> IF result.success THEN "allocating" ELSE "returned",
                       calls |-> tx[w].calls + 1,
                       requested |-> requested,
                       rows |-> tx_rows(dj_batch, available),
                       result |-> result]]
    /\ UNCHANGED <<backend, dj_vars, granted, fl_vars, pr_vars, al_vars>>

TxPlan ==
    \E w \in Workers, product \in Products, requested \in 1..MaxReq,
       location \in {NoLocation}, method \in {"fifo", "fefo"} :
        tx_plan(w, product, requested, location, method)

\* fulfill_order_item from "Actually allocate the inventory" to the commit
\* that ends the atomic block.
tx_allocate(w) ==
    /\ backend = "django_workers"
    /\ tx[w].pc = "allocating"
    /\ dj_batch' = tx_save(dj_batch, tx[w].rows, tx[w].result.allocations, 1)
    /\ granted' = tx_grant(granted, tx[w].rows, tx[w].result.allocations, 1)
    /\ tx' = [tx EXCEPT ![w].pc = "returned"]
    /\ UNCHANGED <<backend, dj_inv, dj_result, fl_vars, pr_vars, al_vars>>

TxAllocate == \E w \in Workers : tx_allocate(w)

\* The worker's caller takes the result; the worker is free again.
TxReturn ==
    \E w \in Workers :
        /\ backend = "django_workers"
        /\ tx[w].pc = "returned"
        /\ tx' = [tx EXCEPT ![w] = [pc |-> "idle", calls |-> tx[w].calls]]
        /\ UNCHANGED <<backend, dj_vars, granted, fl_vars, pr_vars, al_vars>>

\* The workers share a catalogue whose batches expire on three later days.
InitConc ==
    /\ backend = "django_workers"
    /\ InitDjango
    /\ \A b \in Batches : dj_batch[b].expiration_date = Today + b
    /\ IdleFlask
    /\ IdleConc
    /\ IdlePricing
    /\ IdleAlerts

NextConc == TxPlan \/ TxAllocate \/ TxReturn

SpecConc == InitConc /\ [][NextConc]_vars

\* ====================================================== Flask: pricing
\* Prices are exact: percentages are carried doubled (_x2), so that the
\* midpoint of a tier is a whole number, and a price after n percentage
\* reductions is carried multiplied by 200^n.
PriceQuantities == {1, 49, 50, 99, 100}

\* backend/services.py PricingService._check_batch_discount: the batches
\* .first() may return, and the percentage for the one it returned.
fl_near_expiry(batch, product_id) ==
    { b \in Batches : /\ batch[b].product = product_id
                      /\ batch[b].expiration_date <= Today + 7
                      /\ batch[b].current_quantity > 0 }

fl_check_batch_discount(batch, product_id) ==
    IF fl_near_expiry(batch, product_id) = {} THEN {0}
    ELSE { IF batch[b].expiration_date - Today <= 3 THEN 15
           ELSE IF batch[b].expiration_date - Today <= 7 THEN 10
           ELSE 0 : b \in fl_near_expiry(batch, product_id) }

\* backend/services.py PricingService.calculate_price: the tier part.
fl_tier_discount_x2(retailer_id, quantity) ==
    IF ~HasTier(retailer_id) THEN 2 * 10
    ELSE IF quantity >= 100 THEN 2 * TierMax(retailer_id)
    ELSE IF quantity >= 50 THEN TierMin(retailer_id) + TierMax(retailer_id)
    ELSE 2 * TierMin(retailer_id)

\* backend/services.py PricingService.calculate_price, one whole call.
calculate_price(retailer_id, product_id, quantity) ==
    /\ backend = "flask_pricing"
    /\ pr_result = NoResult
    /\ \E batch_discount \in fl_check_batch_discount(fl_batch, product_id) :
         LET base_price == Mrp(product_id)
             discount_percentage_x2 == fl_tier_discount_x2(retailer_id, quantity)
             discounted_x200 == base_price * (200 - discount_percentage_x2)
             final_x40000 == discounted_x200 * (200 - 2 * batch_discount)
         IN  pr_result' =
               [kind |-> "calculate_price", retailer_id |-> retailer_id,
                product_id |-> product_id, quantity |-> quantity,
                base_price |-> base_price,
                discount_percentage_x2 |->
                    discount_percentage_x2 + 2 * batch_discount,
                discount_amount_x200 |-> base_price * discount_percentage_x2,
                discounted_price_x40000 |-> final_x40000,
                has_batch_discount |-> batch_discount > 0]
    /\ UNCHANGED <<backend, dj_vars, fl_vars, conc_vars, pr_db, al_vars>>

FlCalculatePrice ==
    \E retailer_id \in Retailers, product_id \in Products,
       quantity \in PriceQuantities :
        calculate_price(retailer_id, product_id, quantity)

\* backend/routes.py calculate_dynamic_pricing (POST /pricing/calculate).
calculate_dynamic_pricing(retailer_id, product_id, quantity) ==
    /\ backend = "flask_pricing"
    /\ pr_result = NoResult
    /\ LET base_price == Mrp(product_id)
           tier_x2 == IF HasTier(retailer_id)
                      THEN TierMin(retailer_id) + TierMax(retailer_id)
                      ELSE 0
           discount_percentage_x2 == IF quantity >= 100 THEN tier_x2 + 2 * 5
                                     ELSE tier_x2
       IN  pr_result' =
             [kind |-> "calculate_dynamic_pricing", retailer_id |-> retailer_id,
              product_id |-> product_id, quantity |-> quantity,
              base_price |-> base_price,
              discount_percentage_x2 |-> discount_percentage_x2,
              discount_amount_x200 |-> base_price * discount_percentage_x2,
              final_price_x200 |-> base_price * (200 - discount_percentage_x2)]
    /\ UNCHANGED <<backend, dj_vars, fl_vars, conc_vars, pr_db, al_vars>>

FlCalculateDynamicPricing ==
    \E retailer_id \in Retailers, product_id \in Products,
       quantity \in PriceQuantities :
        calculate_dynamic_pricing(retailer_id, product_id, quantity)

\* The batches the Flask pricing calls may find: in or out of the seven-day
\* window, with or without stock.
InitFlaskPricing ==
    /\ fl_batch \in [Batches -> [product : Products,
                                 production_date : {Today - 3, Today - 2, Today - 1},
                                 expiration_date : {Today + 2, Today + 5, Today + 9},
                                 current_quantity : {0, MaxQty},
                                 status : {"In Stock"}]]
    /\ \A b \in Batches : /\ fl_batch[b].production_date = ProductionDate(b)
                          /\ fl_batch[b].product = (IF b = 3 THEN 2 ELSE 1)
    /\ fl_inv = [i \in Batches |-> [batch_id |-> i, location |-> "MW",
                                    quantity_on_hand |-> fl_batch[i].current_quantity,
                                    reorder_point |-> 1]]
    /\ fl_orders = <<>>
    /\ fl_items = <<>>
    /\ fl_response = NoResult
    /\ pr_db = <<>>
    /\ pr_result = NoResult

\* ===================================================== Django: pricing
\* Decimal arithmetic is exact here, so a price is carried as a whole number:
\* the price multiplied by PriceScale, which leaves room for three successive
\* percentage reductions (price * (pct / 100) is computed as
\* (price / 100) * pct, which divides exactly).  0 stands for a field that
\* is None.
PriceScale == 100 * 100 * 100

NoBatch == 0 - 100      \* days_until_expiry of "no batch given"

\* A nullable column that was left empty, and the product of a general
\* (product-less) pricing row.
NoValue == 0 - 1
NoProduct == 0

\* Python's truth test of a nullable Decimal: None and 0 are both false.
pr_truthy(value) == value # NoValue /\ value # 0

\* pricing/models.py RetailerPricing.get_effective_price for an active row
\* inside its effective period; base_price is scaled.
get_effective_price(row, base_price) ==
    IF pr_truthy(row.custom_price) THEN row.custom_price * PriceScale
    ELSE LET discount == IF pr_truthy(row.custom_discount_percentage)
                         THEN row.custom_discount_percentage
                         ELSE row.tier_discount_percentage
         IN  IF discount # 0
             THEN base_price - (base_price \div 100) * discount
             ELSE base_price

\* pricing/models.py DynamicPricing.is_applicable for an active rule with no
\* time, product or retailer constraint; days is the batch's
\* days_until_expiry(), NoBatch without a batch.
is_applicable(rule, days, quantity) ==
    /\ ~(rule.apply_to_expiring_batches /\ days # NoBatch
         /\ days > rule.expiry_threshold_days)
    /\ ~(rule.volume_tier_quantity # 0 /\ quantity # 0
         /\ quantity < rule.volume_tier_quantity)

\* pricing/models.py DynamicPricing.calculate_discount.
calculate_discount(rule, base_price, days, quantity) ==
    IF ~is_applicable(rule, days, quantity) THEN 0
    ELSE (IF /\ rule.apply_to_expiring_batches
             /\ rule.expiry_discount_percentage # 0
             /\ days # NoBatch
             /\ days <= rule.expiry_threshold_days
          THEN (base_price \div 100) * rule.expiry_discount_percentage
          ELSE 0)
         + (IF /\ rule.volume_discount_percentage # 0
               /\ quantity # 0
               /\ rule.volume_tier_quantity # 0
               /\ quantity >= rule.volume_tier_quantity
            THEN (base_price \div 100) * rule.volume_discount_percentage
            ELSE 0)

\* A rule whose percentage is taken of the list price.
rule_price_mrp(base_price, final_price) == base_price

\* The price get_retailer_price hands to calculate_discount: the price as
\* reduced so far.
rule_price(base_price, final_price) == final_price

\* The loop of get_retailer_price over the rules from position k on: the
\* final price and the discounts applied so far.
RECURSIVE pr_apply_rules(_, _, _, _, _, _, _)
pr_apply_rules(rules, order, k, base_price, acc, days, quantity) ==
    IF k > Len(order) THEN acc
    ELSE LET rule == rules[order[k]]
             discount == IF is_applicable(rule, days, quantity)
                         THEN calculate_discount(rule,
                                  rule_price(base_price, acc.final_price),
                                  days, quantity)
                         ELSE 0
         IN  pr_apply_rules(rules, order, k + 1, base_price,
               IF discount > 0
               THEN [final_price |-> acc.final_price - discount,
                     applied |-> Append(acc.applied,
                                   [type |-> "dynamic_discount", rule |-> order[k],
                                    discount_amount |-> discount])]
               ELSE acc,
               days, quantity)

\* DynamicPricing.objects...order_by('-priority'): the rule ids in an order
\* the query may return.
pr_dynamic_rules(rules) ==
    LET before(a, b) == rules[a].priority > rules[b].priority
    IN  OrderBy(DOMAIN rules, before)

\* The two queries of get_retailer_price for the retailer's pricing row: the
\* row of the product if there is one, else the general row; as a sequence
\* that is empty when neither exists.  (unique_together allows one row per
\* product; the tables here hold at most one general row.)
pr_retailer_pricing(table, product) ==
    LET specific == SelectSeq(table, LAMBDA row : row.product = product)
        general == SelectSeq(table, LAMBDA row : row.product = NoProduct)
    IN  IF specific # <<>> THEN <<specific[1]>>
        ELSE IF general # <<>> THEN <<general[1]>>
        ELSE <<>>

\* pricing/services.py PricingService.get_retailer_price, one whole call.
get_retailer_price(product, quantity, days) ==
    /\ backend \in {"django_pricing", "django_tiers", "django_steep"}
    /\ pr_result = NoResult
    /\ \E order \in pr_dynamic_rules(pr_db.rules) :
         LET base_price == Mrp(product) * PriceScale
             retailer_pricing == pr_retailer_pricing(pr_db.retailer_pricing, product)
             tier_price == IF retailer_pricing = <<>> THEN base_price
                           ELSE get_effective_price(retailer_pricing[1], base_price)
             tier_discount == base_price - tier_price
             start == [final_price |-> tier_price,
                       applied |-> IF retailer_pricing # <<>> /\ tier_discount > 0
                                   THEN <<[type |-> "tier_discount", rule |-> 0,
                                           discount_amount |-> tier_discount]>>
                                   ELSE <<>>]
             out == pr_apply_rules(pr_db.rules, order, 1, base_price, start,
                                   days, quantity)
         IN  pr_result' = [kind |-> "get_retailer_price", product |-> product,
                           quantity |-> quantity, days |-> days,
                           base_price |-> base_price,
                           final_price |-> out.final_price,
                           total_discount |-> base_price - out.final_price,
                           applied_discounts |-> out.applied]
    /\ UNCHANGED <<backend, dj_vars, fl_vars, conc_vars, pr_db, al_vars>>

DjGetRetailerPrice ==
    \E product \in Products, quantity \in {1, 50}, days \in {NoBatch, 2, 9} :
        get_retailer_price(product, quantity, days)

\* The rows the Django pricing tables may hold: at most one pricing row of
\* the retailer (custom price, custom discount, discount of its tier) and at
\* most two active rules, each an expiry rule, a volume rule, both or neither.
PricingRows ==
    [product : {NoProduct}, custom_price : {0, 90},
     custom_discount_percentage : {0, 25}, tier_discount_percentage : {0, 20}]

PricingRules ==
    { r \in [priority : {0, 1},
             apply_to_expiring_batches : BOOLEAN,
             expiry_threshold_days : {3},
             expiry_discount_percentage : {0, 15},
             volume_tier_quantity : {0, 50},
             volume_discount_percentage : {0, 10}] :
        /\ r.apply_to_expiring_batches <=> r.expiry_discount_percentage # 0
        /\ r.volume_tier_quantity # 0 <=> r.volume_discount_percentage # 0 }

InitDjangoPricing ==
    /\ pr_db \in [retailer_pricing : {<<>>} \cup {<<row>> : row \in PricingRows},
                  rules : {<<>>} \cup {<<r>> : r \in PricingRules}
                          \cup {<<r, q>> : r \in PricingRules, q \in PricingRules}]
    /\ pr_result = NoResult

InitPricing ==
    /\ \/ backend = "django_pricing" /\ InitDjangoPricing /\ IdleDjango /\ IdleFlask
       \/ backend = "flask_pricing" /\ InitFlaskPricing /\ IdleDjango
    /\ IdleConc
    /\ IdleAlerts

\* The caller takes the quoted price; the next call can start.
PrReturn ==
    /\ backend \in {"django_pricing", "flask_pricing", "django_tiers", "django_steep"}
    /\ pr_result # NoResult
    /\ pr_result' = NoResult
    /\ UNCHANGED <<backend, dj_vars, fl_vars, conc_vars, pr_db, al_vars>>

NextPricing ==
    \/ FlCalculatePrice
    \/ FlCalculateDynamicPricing
    \/ DjGetRetailerPrice
    \/ PrReturn

SpecPricing == InitPricing /\ [][NextPricing]_vars

\* ---------------------------------------------------------- tier rows
\* The retailer's pricing rows alone, with no dynamic rule: a row for
\* product 1, a general row, both or neither.  A custom price or custom
\* discount is empty, zero or a positive value.
TierRows(product) ==
    [product : {product}, custom_price : {NoValue, 0, 90},
     custom_discount_percentage : {NoValue, 0, 25},
     tier_discount_percentage : {10, 20}]

InitTiers ==
    /\ backend = "django_tiers"
    /\ \E specific \in {<<>>} \cup {<<row>> : row \in TierRows(1)},
          general \in {<<>>} \cup {<<row>> : row \in TierRows(NoProduct)} :
         pr_db = [retailer_pricing |-> specific \o general, rules |-> <<>>]
    /\ pr_result = NoResult
    /\ IdleDjango
    /\ IdleFlask
    /\ IdleConc
    /\ IdleAlerts

NextTiers ==
    \/ DjGetRetailerPrice
    \/ PrReturn

SpecTiers == InitTiers /\ [][NextTiers]_vars

\* ============================================================== alerts
\* Rows come back from a query without ORDER BY in any order.
Unordered(a, b) == FALSE

\* inventory/services.py get_expiring_batches.
get_expiring_batches(batches, days_ahead) ==
    LET before(a, b) == batches[a].expiration_date < batches[b].expiration_date
    IN  OrderBy({ b \in Batches : /\ batches[b].expiration_date <= Today + days_ahead
                                  /\ batches[b].expiration_date > Today
                                  /\ batches[b].current_quantity > 0
                                  /\ batches[b].status = "in_stock" }, before)

\* inventory/models.py Batch.days_until_expiry.
days_until_expiry(row) == row.expiration_date - Today

\* A check that finds no earlier alert, whatever the table holds.
dj_no_existing_alert(alerts, batch) == FALSE

\* check_expiry_alerts' query for an active expiry warning of the batch.
dj_existing_alert(alerts, batch) ==
    \E i \in 1..Len(alerts) : /\ alerts[i].alert_type = "expiry_warning"
                              /\ alerts[i].batch = batch
                              /\ alerts[i].status = "active"

\* The loop of check_expiry_alerts over the batches from position k on: the
\* alerts table and the alerts created.
RECURSIVE dj_expiry_walk(_, _, _, _, _)
dj_expiry_walk(batches, alerts, created, expiring, k) ==
    IF k > Len(expiring) THEN [alerts |-> alerts, created |-> created]
    ELSE LET b == expiring[k]
             days == days_until_expiry(batches[b])
             alert == [alert_type |-> "expiry_warning", batch |-> b,
                       status |-> "active",
                       priority |-> IF days <= 1 THEN "critical"
                                    ELSE IF days <= 3 THEN "high"
                                    ELSE "medium"]
         IN  IF dj_existing_alert(alerts, b)
             THEN dj_expiry_walk(batches, alerts, created, expiring, k + 1)
             ELSE dj_expiry_walk(batches, Append(alerts, alert),
                                 Append(created, b), expiring, k + 1)

\* alerts/services.py AlertService.check_expiry_alerts, one whole run.
check_expiry_alerts(days_ahead) ==
    /\ backend \in {"django_alerts", "django_sweeps"}
    /\ \E expiring \in get_expiring_batches(dj_batch, days_ahead) :
         LET out == dj_expiry_walk(dj_batch, dj_alerts, <<>>, expiring, 1)
         IN  /\ dj_alerts' = out.alerts
             /\ al_last' = [kind |-> "check_expiry_alerts",
                            days_ahead |-> days_ahead, expiring |-> expiring,
                            created |-> out.created]
    /\ UNCHANGED <<backend, dj_vars, fl_vars, conc_vars, pr_vars, fl_alerts>>

DjCheckExpiryAlerts == \E days_ahead \in {3, 7} : check_expiry_alerts(days_ahead)

\* The query of the Flask checks for a 'New' alert of a target.
fl_existing_alert(alerts, alert_type, target_id, target_table) ==
    \E i \in 1..Len(alerts) : /\ alerts[i].alert_type = alert_type
                              /\ alerts[i].target_id = target_id
                              /\ alerts[i].target_table = target_table
                              /\ alerts[i].status = "New"

\* The loop of a Flask check over its targets from position k on.
RECURSIVE fl_alert_walk(_, _, _, _, _, _)
fl_alert_walk(alerts, created, targets, k, alert_type, target_table) ==
    IF k > Len(targets) THEN [alerts |-> alerts, created |-> created]
    ELSE LET alert == [alert_type |-> alert_type, target_id |-> targets[k],
                       target_table |-> target_table, status |-> "New"]
         IN  IF fl_existing_alert(alerts, alert_type, targets[k], target_table)
             THEN fl_alert_walk(alerts, created, targets, k + 1,
                                alert_type, target_table)
             ELSE fl_alert_walk(Append(alerts, alert), Append(created, alert),
                                targets, k + 1, alert_type, target_table)

\* backend/services.py AlertService.check_expiration_alerts, one whole run.
fl_expiring_batches(batch, days_ahead) ==
    LET before(a, b) == batch[a].expiration_date < batch[b].expiration_date
    IN  OrderBy({ b \in Batches : /\ batch[b].expiration_date <= Today + days_ahead
                                  /\ batch[b].expiration_date > Today
                                  /\ batch[b].current_quantity > 0
                                  /\ batch[b].status \in {"Received", "In Stock"} },
                before)

check_expiration_alerts(days_ahead) ==
    /\ backend = "flask_alerts"
    /\ \E expiring \in fl_expiring_batches(fl_batch, days_ahead) :
         LET out == fl_alert_walk(fl_alerts, <<>>, expiring, 1,
                                  "Expiration", "Batches")
         IN  /\ fl_alerts' = out.alerts
             /\ al_last' = [kind |-> "check_expiration_alerts",
                            days_ahead |-> days_ahead, expiring |-> expiring,
                            created |-> out.created]
    /\ UNCHANGED <<backend, dj_vars, fl_vars, conc_vars, pr_vars, dj_alerts>>

FlCheckExpirationAlerts ==
    \E days_ahead \in {3, 7} : check_expiration_alerts(days_ahead)

\* backend/routes.py check_alerts (POST /alerts/check), one whole request:
\* the expiring batches, then the inventory rows at or under their reorder
\* point.
fl_route_expiring(batch) ==
    OrderBy({ b \in Batches : /\ batch[b].expiration_date <= Today + 7
                              /\ batch[b].status = "In Stock"
                              /\ batch[b].current_quantity > 0 }, Unordered)

fl_route_low_stock(inv) ==
    OrderBy({ i \in DOMAIN inv : inv[i].quantity_on_hand <= inv[i].reorder_point },
            Unordered)

check_alerts ==
    /\ backend \in {"flask_alerts", "flask_batches"}
    /\ \E expiring \in fl_route_expiring(fl_batch),
          low_stock \in fl_route_low_stock(fl_inv) :
         LET first == fl_alert_walk(fl_alerts, <<>>, expiring, 1,
                                    "Expiration", "batches")
             out == fl_alert_walk(first.alerts, first.created, low_stock, 1,
                                  "Low Stock", "inventory")
         IN  /\ fl_alerts' = out.alerts
             /\ al_last' = [kind |-> "check_alerts", days_ahead |-> 7,
                            created |-> out.created]
    /\ UNCHANGED <<backend, dj_vars, fl_vars, conc_vars, pr_vars, dj_alerts>>

\* The batches a scan may meet: expired today or expiring in 1, 3, 5 or 8
\* days; one batch may be out of stock, one may have another status.
AlertDates == {Today, Today + 1, Today + 3, Today + 5, Today + 8}

InitDjangoAlerts ==
    /\ dj_batch \in [Batches -> [product : Products,
                                 production_date : {Today - 3, Today - 2, Today - 1},
                                 expiration_date : AlertDates,
                                 current_quantity : {0, MaxQty},
                                 status : {"in_stock", "expired"}]]
    /\ \A b \in Batches : /\ dj_batch[b].production_date = ProductionDate(b)
                          /\ dj_batch[b].product = (IF b = 3 THEN 2 ELSE 1)
                          /\ (b # 2 => dj_batch[b].current_quantity = MaxQty)
                          /\ (b # 3 => dj_batch[b].status = "in_stock")
    /\ dj_inv = [k \in {<<b, StoredAt(b)>> : b \in Batches} |->
                    dj_batch[k[1]].current_quantity]
    /\ dj_result = NoResult

InitFlaskAlerts ==
    /\ fl_batch \in [Batches -> [product : Products,
                                 production_date : {Today - 3, Today - 2, Today - 1},
                                 expiration_date : AlertDates,
                                 current_quantity : {0, MaxQty},
                                 status : {"In Stock", "Received"}]]
    /\ \A b \in Batches : /\ fl_batch[b].production_date = ProductionDate(b)
                          /\ fl_batch[b].product = (IF b = 3 THEN 2 ELSE 1)
                          /\ (b # 2 => fl_batch[b].current_quantity = MaxQty)
                          /\ (b # 3 => fl_batch[b].status = "In Stock")
    /\ fl_inv = [i \in Batches |-> [batch_id |-> i, location |-> "MW",
                                    quantity_on_hand |-> fl_batch[i].current_quantity,
                                    reorder_point |-> 1]]
    /\ fl_orders = <<>>
    /\ fl_items = <<>>
    /\ fl_response = NoResult

InitAlerts ==
    /\ \/ backend = "django_alerts" /\ InitDjangoAlerts /\ IdleFlask
       \/ backend = "flask_alerts" /\ InitFlaskAlerts /\ IdleDjango
    /\ IdleConc
    /\ IdlePricing
    /\ IdleAlerts

NextAlerts ==
    \/ DjCheckExpiryAlerts
    \/ FlCheckExpirationAlerts
    \/ check_alerts

SpecAlerts == InitAlerts /\ [][NextAlerts]_vars

\* ============================================ Django: concurrent scans
\* Two workers run check_expiry_alerts at once.  The function runs outside
\* any transaction (autocommit): its query for an existing alert and its
\* Alert.objects.create are separate statements, and the alerts table has no
\* unique constraint (Alert.Meta), so another worker's statements may fall
\* between them.

\* The alert check_expiry_alerts creates for a batch.
dj_expiry_alert(batches, b) ==
    [alert_type |-> "expiry_warning", batch |-> b, status |-> "active",
     priority |-> IF days_until_expiry(batches[b]) <= 1 THEN "critical"
                  ELSE IF days_until_expiry(batches[b]) <= 3 THEN "high"
                  ELSE "medium"]

\* check_expiry_alerts up to the start of its loop: the expiring batches.
scan_start(w, days_ahead) ==
    /\ backend = "django_scanners"
    /\ tx[w].pc = "idle"
    /\ tx[w].calls < MaxCalls
    /\ \E expiring \in get_expiring_batches(dj_batch, days_ahead) :
         tx' = [tx EXCEPT ![w] = [pc |-> "checking", calls |-> tx[w].calls + 1,
                                  expiring |-> expiring, k |-> 1]]
    /\ UNCHANGED <<backend, dj_vars, fl_vars, granted, pr_vars, al_vars>>

ScanStart == \E w \in Workers, days_ahead \in {3, 7} : scan_start(w, days_ahead)

\* The head of one loop round: the query for an active alert of the batch;
\* past the last batch the call returns.
scan_check(w) ==
    /\ backend = "django_scanners"
    /\ tx[w].pc = "checking"
    /\ tx' = [tx EXCEPT ![w] =
                IF tx[w].k > Len(tx[w].expiring)
                THEN [pc |-> "idle", calls |-> tx[w].calls]
                ELSE IF dj_existing_alert(dj_alerts, tx[w].expiring[tx[w].k])
                THEN [tx[w] EXCEPT !.k = @ + 1]
                ELSE [tx[w] EXCEPT !.pc = "creating"]]
    /\ UNCHANGED <<backend, dj_vars, fl_vars, granted, pr_vars, al_vars>>

ScanCheck == \E w \in Workers : scan_check(w)

\* The rest of the round: create_alert for the batch.
scan_create(w) ==
    /\ backend = "django_scanners"
    /\ tx[w].pc = "creating"
    /\ dj_alerts' = Append(dj_alerts, dj_expiry_alert(dj_batch, tx[w].expiring[tx[w].k]))
    /\ tx' = [tx EXCEPT ![w] = [tx[w] EXCEPT !.pc = "checking", !.k = @ + 1]]
    /\ UNCHANGED <<backend, dj_vars, fl_vars, granted, pr_vars, fl_alerts, al_last>>

ScanCreate == \E w \in Workers : scan_create(w)

InitScanners ==
    /\ backend = "django_scanners"
    /\ InitDjangoAlerts
    /\ \A b \in Batches : /\ dj_batch[b].current_quantity = MaxQty
                          /\ dj_batch[b].status = "in_stock"
                          /\ dj_batch[b].expiration_date \in {Today + 1, Today + 5, Today + 8}
    /\ IdleFlask
    /\ IdleConc
    /\ IdlePricing
    /\ IdleAlerts

NextScanners == ScanStart \/ ScanCheck \/ ScanCreate

SpecScanners == InitScanners /\ [][NextScanners]_vars

\* The sum of the stored line totals of one order.
RECURSIVE SumLineTotals(_, _)
SumLineTotals(items, order_id) ==
    IF items = <<>> THEN 0
    ELSE (IF Head(items).order_id = order_id THEN Head(items).line_total_x200 ELSE 0)
         + SumLineTotals(Tail(items), order_id)

\* The order items the inner loop of create_order added for one requested
\* line, read back from the order: items is the run of rows of that line.
\* Each row names a batch of the line's product, no batch twice, and the rows
\* carry `quantity` units together.
fl_line_traced(line, items, batch, quantity) ==
    /\ \A i \in 1..Len(items) :
          /\ items[i].product_id = line.product_id
          /\ items[i].batch_id \in Batches
          /\ batch[items[i].batch_id].product = line.product_id
          /\ items[i].quantity > 0
    /\ \A i, j \in 1..Len(items) : i # j => items[i].batch_id # items[j].batch_id
    /\ SumFor(items, line.product_id) = quantity

\* The rows of one order, in the order create_order added them.
fl_items_of(items, order_id) ==
    SelectSeq(items, LAMBDA it : it.order_id = order_id)

\* The rows of an order split into one run per requested line (a request has
\* one or two lines).  asked(line) is the quantity the rows of a line must
\* carry.
fl_order_traced(lines, items, batch, asked(_)) ==
    IF Len(lines) = 1
    THEN fl_line_traced(lines[1], items, batch, asked(lines[1]))
    ELSE \E c \in 0..Len(items) :
            /\ fl_line_traced(lines[1], SubSeq(items, 1, c), batch, asked(lines[1]))
            /\ fl_line_traced(lines[2], SubSeq(items, c + 1, Len(items)), batch,
                              asked(lines[2]))

\* ============================================================== sweeps
\* The Django alert sweeps over the inventory rows and the expired batches:
\* alerts/services.py check_low_stock_alerts, check_expired_batches and
\* run_alert_checks.  None of them catches an exception, and every
\* Alert.objects.create is committed as it runs, so a sweep that raises keeps
\* the alerts it has made and leaves the remaining rows unvisited.

\* The inventory rows of the sweeps: batch 1 is kept at both locations.
SweepRows == {<<1, "DC">>, <<1, "MW">>, <<2, "DC">>, <<3, "MW">>}

\* Inventory.reorder_point of a row; the row of batch 3 has none (null).
NoReorderPoint == 0 - 1
reorder_point(row) == IF row[1] = 3 THEN NoReorderPoint ELSE 1

\* The place of a location in Inventory.Meta.ordering's string order.
LocationRank(location) == IF location = "DC" THEN 1 ELSE 2

\* inventory/services.py get_low_stock_alerts: the rows at or under their
\* reorder point, in the order of Inventory.Meta.ordering.
get_low_stock_alerts(batches, inv) ==
    LET before(r, s) ==
            \/ LocationRank(r[2]) < LocationRank(s[2])
            \/ /\ r[2] = s[2]
               /\ batches[r[1]].expiration_date < batches[s[1]].expiration_date
    IN  OrderBy({ r \in DOMAIN inv : /\ reorder_point(r) # NoReorderPoint
                                     /\ inv[r] <= reorder_point(r) }, before)

\* check_low_stock_alerts' query for an active low-stock alert of the row's
\* product and batch (the product is the batch's).
dj_existing_low_stock(alerts, batch) ==
    \E i \in 1..Len(alerts) : /\ alerts[i].alert_type = "low_stock"
                              /\ alerts[i].batch = batch
                              /\ alerts[i].status = "active"

\* The priority branch of check_low_stock_alerts.  Its second test multiplies
\* the Decimal reorder point by the float 0.5, which Python refuses with a
\* TypeError: a row that is not critical raises.
dj_low_stock_priority(current_quantity, point) ==
    LET deficit == point - current_quantity
    IN  IF deficit >= current_quantity THEN "critical" ELSE "TypeError"

\* A loop that starts from an empty alerts table: the rows that were there
\* are gone when it has run.
dj_low_stock_walk_fresh(inv, alerts, created, rows, k) ==
    [alerts |-> <<>>, created |-> created, raised |-> FALSE]

\* The loop of check_low_stock_alerts over the rows from position k on: the
\* alerts table, the rows an alert was created for, and whether the loop was
\* left by an exception.
RECURSIVE dj_low_stock_walk(_, _, _, _, _)
dj_low_stock_walk(inv, alerts, created, rows, k) ==
    IF k > Len(rows) THEN [alerts |-> alerts, created |-> created, raised |-> FALSE]
    ELSE LET row == rows[k]
             priority == dj_low_stock_priority(inv[row], reorder_point(row))
             alert == [alert_type |-> "low_stock", batch |-> row[1],
                       status |-> "active", priority |-> priority]
         IN  IF dj_existing_low_stock(alerts, row[1])
             THEN dj_low_stock_walk(inv, alerts, created, rows, k + 1)
             ELSE IF priority = "TypeError"
             THEN [alerts |-> alerts, created |-> created, raised |-> TRUE]
             ELSE dj_low_stock_walk(inv, Append(alerts, alert),
                                    Append(created, row), rows, k + 1)

\* alerts/services.py AlertService.check_low_stock_alerts, one whole run.
check_low_stock_alerts ==
    /\ backend = "django_sweeps"
    /\ al_last = NoResult
    /\ \E rows \in get_low_stock_alerts(dj_batch, dj_inv) :
         LET out == dj_low_stock_walk(dj_inv, dj_alerts, <<>>, rows, 1)
         IN  /\ dj_alerts' = out.alerts
             /\ al_last' = [kind |-> "check_low_stock_alerts", rows |-> rows,
                            created |-> out.created, raised |-> out.raised]
    /\ UNCHANGED <<backend, dj_vars, fl_vars, conc_vars, pr_vars, fl_alerts>>

\* check_expired_batches' query, in the order of Batch.Meta.ordering.
dj_expired_batches(batches) ==
    LET before(a, b) == batches[a].production_date > batches[b].production_date
    IN  OrderBy({ b \in Batches : /\ batches[b].expiration_date < Today
                                  /\ batches[b].current_quantity > 0
                                  /\ batches[b].status = "in_stock" }, before)

dj_existing_expired(alerts, batch) ==
    \E i \in 1..Len(alerts) : /\ alerts[i].alert_type = "batch_expired"
                              /\ alerts[i].batch = batch
                              /\ alerts[i].status = "active"

\* The loop of check_expired_batches over the batches from position k on.
RECURSIVE dj_expired_walk(_, _, _, _, _)
dj_expired_walk(batches, alerts, created, expired, k) ==
    IF k > Len(expired)
    THEN [batches |-> batches, alerts |-> alerts, created |-> created]
    ELSE LET b == expired[k]
             alert == [alert_type |-> "batch_expired", batch |-> b,
                       status |-> "active", priority |-> "critical"]
         IN  IF dj_existing_expired(alerts, b)
             THEN dj_expired_walk(batches, alerts, created, expired, k + 1)
             ELSE dj_expired_walk([batches EXCEPT ![b].status = "expired"],
                                  Append(alerts, alert), Append(created, b),
                                  expired, k + 1)

\* alerts/services.py AlertService.check_expired_batches, one whole run.
check_expired_batches ==
    /\ backend = "django_sweeps"
    /\ al_last = NoResult
    /\ \E expired \in dj_expired_batches(dj_batch) :
         LET out == dj_expired_walk(dj_batch, dj_alerts, <<>>, expired, 1)
         IN  /\ dj_batch' = out.batches
             /\ dj_alerts' = out.alerts
             /\ al_last' = [kind |-> "check_expired_batches", rows |-> expired,
                            created |-> out.created, raised |-> FALSE]
    /\ UNCHANGED <<backend, dj_inv, dj_result, fl_vars, conc_vars, pr_vars, fl_alerts>>

\* alerts/services.py AlertService.run_alert_checks, one whole run: the
\* expiry check, the low-stock check and the expired-batch check in turn.  An
\* exception of the low-stock check leaves run_alert_checks before the
\* expired-batch check is called.
run_alert_checks ==
    /\ backend = "django_sweeps"
    /\ al_last = NoResult
    /\ \E expiring \in get_expiring_batches(dj_batch, 7),
          rows \in get_low_stock_alerts(dj_batch, dj_inv),
          expired \in dj_expired_batches(dj_batch) :
         LET first == dj_expiry_walk(dj_batch, dj_alerts, <<>>, expiring, 1)
             second == dj_low_stock_walk(dj_inv, first.alerts, <<>>, rows, 1)
             third == dj_expired_walk(dj_batch, second.alerts, <<>>, expired, 1)
         IN  IF second.raised
             THEN /\ dj_batch' = dj_batch
                  /\ dj_alerts' = second.alerts
                  /\ al_last' = [kind |-> "run_alert_checks", rows |-> rows,
                                 created |-> second.created, raised |-> TRUE]
             ELSE /\ dj_batch' = third.batches
                  /\ dj_alerts' = third.alerts
                  /\ al_last' = [kind |-> "run_alert_checks", rows |-> rows,
                                 created |-> second.created, raised |-> FALSE]
    /\ UNCHANGED <<backend, dj_inv, dj_result, fl_vars, conc_vars, pr_vars, fl_alerts>>

\* backend/services.py AlertService.check_low_stock_alerts, one whole run:
\* the joined (product, inventory, batch) rows at or under their reorder
\* point, with one 'New' alert per product, whichever of its rows is low.
fl_low_stock_products(batch, inv) ==
    LET low_stock_items ==
            OrderBy({ i \in DOMAIN inv :
                        inv[i].quantity_on_hand <= inv[i].reorder_point }, Unordered)
    IN  { [k \in DOMAIN items |-> batch[inv[items[k]].batch_id].product] :
            items \in low_stock_items }

fl_check_low_stock_alerts ==
    /\ backend = "flask_batches"
    /\ al_last = NoResult
    /\ \E products \in fl_low_stock_products(fl_batch, fl_inv) :
         LET out == fl_alert_walk(fl_alerts, <<>>, products, 1,
                                  "Low Stock", "Products")
         IN  /\ fl_alerts' = out.alerts
             /\ al_last' = [kind |-> "fl_check_low_stock_alerts",
                            rows |-> products, created |-> out.created,
                            raised |-> FALSE]
    /\ UNCHANGED <<backend, dj_vars, fl_vars, conc_vars, pr_vars, dj_alerts>>

\* The caller takes the result of a sweep (or its exception).
SweepReturn ==
    /\ backend \in {"django_sweeps", "flask_batches"}
    /\ al_last # NoResult
    /\ al_last' = NoResult
    /\ UNCHANGED <<backend, dj_vars, fl_vars, conc_vars, pr_vars, dj_alerts, fl_alerts>>

\* backend/routes.py update_batch_status (PUT /batches/<id>/status), one whole
\* request: whatever string the request carries becomes the batch's status.
BatchStatuses == {"Received", "In Stock", "Dispatched", "Expired", "Recalled"}

update_batch_status(batch_id, status) ==
    /\ backend = "flask_batches"
    /\ fl_response = NoResult
    /\ IF batch_id \notin Batches
       THEN /\ fl_batch' = fl_batch
            /\ fl_response' = [kind |-> "status", status |-> 404, batch_id |-> batch_id]
       ELSE /\ fl_batch' = [fl_batch EXCEPT ![batch_id].status = status]
            /\ fl_response' = [kind |-> "status", status |-> 200, batch_id |-> batch_id]
    /\ UNCHANGED <<backend, dj_vars, fl_inv, fl_orders, fl_items, rest_vars>>

FlUpdateBatchStatus ==
    \E batch_id \in Batches \cup {4}, status \in BatchStatuses :
        update_batch_status(batch_id, status)

\* The Flask batches as create_batch and the seed scripts leave them: in
\* stock, with one inventory row each, the rows of product 1 full or sold
\* out.
InitFlaskBatches ==
    /\ fl_batch = [b \in Batches |->
                     [product |-> IF b = 3 THEN 2 ELSE 1,
                      production_date |-> ProductionDate(b),
                      expiration_date |-> Today + b,
                      current_quantity |-> MaxQty,
                      status |-> "In Stock"]]
    /\ \E on_hand \in [Batches -> {0, MaxQty}] :
         /\ on_hand[3] = MaxQty
         /\ fl_inv = [i \in Batches |-> [batch_id |-> i, location |-> "MW",
                                         quantity_on_hand |-> on_hand[i],
                                         reorder_point |-> 1]]
    /\ fl_orders = <<>>
    /\ fl_items = <<>>
    /\ fl_response = NoResult

\* What a row may hold when a sweep starts: nothing, exactly its reorder
\* point, or a full batch.
SweepStock == {0, 1, MaxQty}

\* Inventory.quantity_on_hand of a batch at a location, zero where the batch
\* has no row there.
dj_row_quantity(inv, b, location) ==
    IF <<b, location>> \in DOMAIN inv THEN inv[<<b, location>>] ELSE 0

InitDjangoSweeps ==
    /\ dj_inv \in [SweepRows -> SweepStock]
    /\ \E expires \in [Batches -> {Today - 1, Today + 1, Today + 5}] :
          dj_batch = [b \in Batches |->
                        [product |-> IF b = 3 THEN 2 ELSE 1,
                         production_date |-> ProductionDate(b) - 1,
                         expiration_date |-> expires[b],
                         current_quantity |-> dj_row_quantity(dj_inv, b, "MW")
                                              + dj_row_quantity(dj_inv, b, "DC"),
                         status |-> "in_stock"]]
    /\ dj_result = NoResult

InitSweeps ==
    /\ \/ backend = "django_sweeps" /\ InitDjangoSweeps /\ IdleFlask
       \/ backend = "flask_batches" /\ InitFlaskBatches /\ IdleDjango
    /\ IdleConc
    /\ IdlePricing
    /\ IdleAlerts

NextSweeps ==
    \/ check_low_stock_alerts
    \/ check_expired_batches
    \/ run_alert_checks
    \/ SweepReturn
    \/ FlUpdateBatchStatus
    \/ fl_check_low_stock_alerts
    \/ FlReturn

SpecSweeps == InitSweeps /\ [][NextSweeps]_vars

\* ---- the read-only checks: the expiry check, the low-stock check and the
\* ---- check_alerts route, run against the stock the sweeps start from.
DjExpiryCheckCall == al_last = NoResult /\ DjCheckExpiryAlerts

FlCheckAlertsCall == al_last = NoResult /\ check_alerts

NextChecks ==
    \/ DjExpiryCheckCall
    \/ check_low_stock_alerts
    \/ FlCheckAlertsCall
    \/ SweepReturn

SpecChecks == InitSweeps /\ [][NextChecks]_vars

\* ---- stock held at several locations: one batch has a second inventory
\* ---- record, at the other location, and its quantity is split between them.
InitLocations ==
    /\ \E shared \in {1, 2}, here \in 1..(MaxQty - 1) :
         \/ /\ backend = "flask_locations"
            /\ \E expires \in [Batches -> {Today, Today + 1}] :
                  fl_batch = [b \in Batches |->
                                [product |-> IF b = 3 THEN 2 ELSE 1,
                                 production_date |-> ProductionDate(b),
                                 expiration_date |-> expires[b],
                                 current_quantity |-> MaxQty,
                                 status |-> "In Stock"]]
            /\ fl_inv = [i \in 1..4 |->
                           IF i = 4
                           THEN [batch_id |-> shared, location |-> "DC",
                                 quantity_on_hand |-> MaxQty - here,
                                 reorder_point |-> 1]
                           ELSE [batch_id |-> i, location |-> "MW",
                                 quantity_on_hand |-> IF i = shared THEN here
                                                      ELSE MaxQty,
                                 reorder_point |-> 1]]
            /\ fl_orders = <<>>
            /\ fl_items = <<>>
            /\ fl_response = NoResult
            /\ IdleDjango
         \/ /\ backend = "django_locations"
            /\ \E expires \in [Batches -> {Today + 1, Today + 2}] :
                  dj_batch = [b \in Batches |->
                                [product |-> 1,
                                 production_date |-> ProductionDate(b),
                                 expiration_date |-> expires[b],
                                 current_quantity |-> MaxQty,
                                 status |-> "in_stock"]]
            /\ dj_inv = [k \in {<<b, StoredAt(b)>> : b \in Batches}
                               \cup {<<shared, "MW">>, <<shared, "DC">>} |->
                           IF k[1] # shared THEN MaxQty
                           ELSE IF k[2] = StoredAt(shared) THEN here
                           ELSE MaxQty - here]
            /\ dj_result = NoResult
            /\ IdleFlask
    /\ IdleConc
    /\ IdlePricing
    /\ IdleAlerts

NextLocations ==
    \/ FlAllocate
    \/ FlReturn
    \/ DjFulfil
    \/ DjReturn

SpecLocations == InitLocations /\ [][NextLocations]_vars

\* ---- steep discounts: every percentage is within the validators' range of
\* ---- 0 to 100 and the large values are among them.
SteepRules ==
    { r \in [priority : {0},
             apply_to_expiring_batches : BOOLEAN,
             expiry_threshold_days : {3},
             expiry_discount_percentage : {0, 60, 100},
             volume_tier_quantity : {0, 50},
             volume_discount_percentage : {0, 60, 100}] :
        /\ r.apply_to_expiring_batches <=> r.expiry_discount_percentage # 0
        /\ r.volume_tier_quantity # 0 <=> r.volume_discount_percentage # 0 }

InitSteep ==
    /\ backend = "django_steep"
    /\ pr_db \in [retailer_pricing :
                     {<<>>} \cup {<<row>> : row \in
                                    [product : {NoProduct}, custom_price : {0},
                                     custom_discount_percentage : {0, 50},
                                     tier_discount_percentage : {0, 100}]},
                  rules : {<<>>} \cup {<<r>> : r \in SteepRules}
                          \cup {<<r, q>> : r \in SteepRules, q \in SteepRules}]
    /\ pr_result = NoResult
    /\ IdleDjango
    /\ IdleFlask
    /\ IdleConc
    /\ IdleAlerts

SpecSteep == InitSteep /\ [][NextTiers]_vars

\* ---- the expired-batch sweep next to the batch endpoint: BatchViewSet is a
\* ---- ModelViewSet over a serializer with every field writable but the id
\* ---- and the timestamps, so a PATCH can set a batch's status.
partial_update ==
    /\ backend = "django_sweeps"
    /\ al_last = NoResult
    /\ \E batch \in Batches, status \in {"in_stock", "expired"} :
          /\ dj_batch[batch].status # status
          /\ dj_batch' = [dj_batch EXCEPT ![batch].status = status]
    /\ UNCHANGED <<backend, dj_inv, dj_result, fl_vars, rest_vars>>

InitExpired ==
    /\ backend = "django_sweeps"
    /\ InitDjangoSweeps
    /\ IdleFlask
    /\ IdleConc
    /\ IdlePricing
    /\ IdleAlerts

NextExpired ==
    \/ check_expired_batches
    \/ partial_update
    \/ SweepReturn

SpecExpired == InitExpired /\ [][NextExpired]_vars

\* ---- the life of an alert: alerts/models.py Alert.acknowledge, resolve and
\* ---- dismiss, each called on the alert as loaded from the table.
\* acknowledged_at and resolved_at are TRUE when the timestamp is set.
STATUS_CHOICES == {"active", "acknowledged", "resolved", "dismissed"}

\* An acknowledge that does not look at the status it finds.
acknowledge_any(alert) ==
    [alert EXCEPT !.status = "acknowledged", !.acknowledged_at = TRUE]

acknowledge(alert) ==
    IF alert.status = "active"
    THEN [alert EXCEPT !.status = "acknowledged", !.acknowledged_at = TRUE]
    ELSE alert

resolve(alert) ==
    IF alert.status \in {"active", "acknowledged"}
    THEN [alert EXCEPT !.status = "resolved", !.resolved_at = TRUE,
                       !.acknowledged_at = TRUE]
    ELSE alert

dismiss(alert) ==
    IF alert.status \in {"active", "acknowledged"}
    THEN [alert EXCEPT !.status = "dismissed", !.resolved_at = TRUE]
    ELSE alert

DjAcknowledge ==
    /\ backend = "django_lifecycle"
    /\ \E i \in 1..Len(dj_alerts) :
          dj_alerts' = [dj_alerts EXCEPT ![i] = acknowledge(@)]
    /\ UNCHANGED <<backend, dj_vars, fl_vars, conc_vars, pr_vars, fl_alerts, al_last>>

DjResolve ==
    /\ backend = "django_lifecycle"
    /\ \E i \in 1..Len(dj_alerts) :
          dj_alerts' = [dj_alerts EXCEPT ![i] = resolve(@)]
    /\ UNCHANGED <<backend, dj_vars, fl_vars, conc_vars, pr_vars, fl_alerts, al_last>>

DjDismiss ==
    /\ backend = "django_lifecycle"
    /\ \E i \in 1..Len(dj_alerts) :
          dj_alerts' = [dj_alerts EXCEPT ![i] = dismiss(@)]
    /\ UNCHANGED <<backend, dj_vars, fl_vars, conc_vars, pr_vars, fl_alerts, al_last>>

\* Three alerts as create_alert leaves them: active, no timestamp set.
InitLifecycle ==
    /\ backend = "django_lifecycle"
    /\ \E types \in [1..3 -> {"expiry_warning", "low_stock", "batch_expired"}] :
          dj_alerts = [i \in 1..3 |->
                         [alert_type |-> types[i], batch |-> i,
                          status |-> "active", priority |-> "critical",
                          acknowledged_at |-> FALSE, resolved_at |-> FALSE]]
    /\ fl_alerts = <<>>
    /\ al_last = NoResult
    /\ IdleDjango
    /\ IdleFlask
    /\ IdleConc
    /\ IdlePricing

NextLifecycle ==
    \/ DjAcknowledge
    \/ DjResolve
    \/ DjDismiss

SpecLifecycle == InitLifecycle /\ [][NextLifecycle]_vars

C2_NoOverdraw ==
    \A b \in Batches : granted[b] <= MaxQty

\* C8: for a retailer whose tier has the discount range [min, max], with no
\* near-expiry batch discount applying, the price computation returns the
\* discount (min + max) / 2 for every quantity.
C8_MidpointDiscount ==
    (/\ pr_result.kind \in {"calculate_price", "calculate_dynamic_pricing"}
     /\ HasTier(pr_result.retailer_id)
     /\ pr_result.kind = "calculate_price" => ~pr_result.has_batch_discount
     /\ pr_result.kind = "calculate_dynamic_pricing" => pr_result.quantity < 100)
    => pr_result.discount_percentage_x2
         = TierMin(pr_result.retailer_id) + TierMax(pr_result.retailer_id)

\* C9: every dynamic rule's discount is its percentage of the price already
\* set by the retailer's pricing row (the tier discount) and reduced by the
\* rules applied before it, and the final price is that price less the
\* discounts of all the rules applied.
C9_RuleStacking ==
    pr_result.kind = "get_retailer_price" =>
        LET applied == pr_result.applied_discounts
            row == pr_retailer_pricing(pr_db.retailer_pricing, pr_result.product)
            tier_price == IF row = <<>> THEN pr_result.base_price
                          ELSE get_effective_price(row[1], pr_result.base_price)
            amounts(n) == [j \in 1..n |->
                             [qty |-> IF applied[j].type = "dynamic_discount"
                                      THEN applied[j].discount_amount ELSE 0]]
            percent(rule) ==
                (IF rule.apply_to_expiring_batches /\ pr_result.days # NoBatch
                 THEN rule.expiry_discount_percentage ELSE 0)
                + (IF pr_result.quantity >= rule.volume_tier_quantity
                   THEN rule.volume_discount_percentage ELSE 0)
        IN  /\ \A i \in 1..Len(applied) :
                 applied[i].type = "dynamic_discount" =>
                    applied[i].discount_amount
                      = percent(pr_db.rules[applied[i].rule])
                        * ((tier_price - SumTaken(amounts(i - 1))) \div 100)
            /\ pr_result.final_price
                 = tier_price - SumTaken(amounts(Len(applied)))

\* Base price 100, a tier discount of 20 and one 10% volume rule: 72.
C9_Witness ==
    /\ pr_result.kind = "get_retailer_price"
    /\ pr_result.base_price = 100 * PriceScale
    /\ Len(pr_result.applied_discounts) = 2
    /\ pr_result.applied_discounts[1].type = "tier_discount"
    /\ pr_result.applied_discounts[1].discount_amount = 20 * PriceScale
    /\ pr_result.applied_discounts[2].type = "dynamic_discount"
    /\ pr_result.applied_discounts[2].discount_amount = 8 * PriceScale
    /\ pr_result.final_price = 72 * PriceScale

\* C10: a run of an expiry check leaves exactly one open expiry alert for
\* every batch it scans, and a run that directly follows a run of the same
\* check creates no alert.
C10_AlertDedup ==
    [][ LET open_dj(b) == { i \in 1..Len(dj_alerts') :
                              /\ dj_alerts'[i].alert_type = "expiry_warning"
                              /\ dj_alerts'[i].batch = b
                              /\ dj_alerts'[i].status = "active" }
            open_fl(b, table) == { i \in 1..Len(fl_alerts') :
                                     /\ fl_alerts'[i].alert_type = "Expiration"
                                     /\ fl_alerts'[i].target_id = b
                                     /\ fl_alerts'[i].target_table = table
                                     /\ fl_alerts'[i].status = "New" }
            soon(row, days) == /\ row.current_quantity > 0
                               /\ row.expiration_date <= Today + days
        IN  /\ al_last'.kind = "check_expiry_alerts" =>
                 \A b \in Batches :
                    (/\ soon(dj_batch[b], al_last'.days_ahead)
                     /\ dj_batch[b].expiration_date > Today
                     /\ dj_batch[b].status = "in_stock")
                    => Cardinality(open_dj(b)) = 1
            /\ al_last'.kind = "check_expiration_alerts" =>
                 \A b \in Batches :
                    (/\ soon(fl_batch[b], al_last'.days_ahead)
                     /\ fl_batch[b].expiration_date > Today
                     /\ fl_batch[b].status \in {"Received", "In Stock"})
                    => Cardinality(open_fl(b, "Batches")) = 1
            /\ al_last'.kind = "check_alerts" =>
                 \A b \in Batches :
                    (/\ soon(fl_batch[b], 7)
                     /\ fl_batch[b].status = "In Stock")
                    => Cardinality(open_fl(b, "batches")) = 1
            /\ (/\ al_last.kind = al_last'.kind
                /\ al_last.days_ahead = al_last'.days_ahead)
               => /\ al_last'.created = <<>>
                  /\ UNCHANGED <<dj_alerts, fl_alerts>>
      ]_vars

\* The seven-day check ran again over three batches that already have their
\* alerts, and created none.
C10_Witness ==
    /\ al_last.kind = "check_expiry_alerts"
    /\ al_last.days_ahead = 7
    /\ al_last.created = <<>>
    /\ Len(dj_alerts) = 3

\* C3: a create_order call either commits one order with every line served,
\* or answers 400 for the line that fell short and leaves batches, inventory,
\* orders and order items at their pre-call values.
C3_OrderAtomic ==
    [][ (fl_response = NoResult /\ fl_response'.kind = "order") =>
          \/ /\ fl_response'.status = 201
             /\ Len(fl_orders') = Len(fl_orders) + 1
          \/ /\ fl_response'.status = 400
             /\ UNCHANGED <<fl_batch, fl_inv, fl_orders, fl_items>> ]_vars

\* A two-line order whose first line was allocated in full and whose second
\* line, of another product, fell short.
C3_Witness ==
    /\ fl_response.kind = "order"
    /\ fl_response.status = 400
    /\ Len(fl_response.lines) = 2
    /\ fl_response.lines[1].product_id # fl_response.lines[2].product_id
    /\ fl_response.short = fl_response.lines[2].product_id
    /\ SumFor(fl_response.tentative, fl_response.lines[1].product_id)
         = fl_response.lines[1].quantity

\* C4: when the eligible batches cannot cover the request, the allocator
\* returns the shortfall with the partial plan and changes no quantity.  For
\* fulfill_order_item that is the shortage and the allocations of its result;
\* for allocate_inventory it is the list it returns.
C4_ShortfallReported ==
    /\ (dj_result.kind = "fulfil" /\ ~dj_result.result.success) =>
          /\ dj_result.result.shortage
               = dj_result.requested - SumTaken(dj_result.result.allocations)
          /\ dj_result.result.allocations
               = dj_walk(dj_batch, dj_result.available, 1, dj_result.requested)
    /\ (fl_response.kind = "allocate" /\ ~fl_response.committed) =>
          fl_response.returned
            = fl_alloc_walk(fl_batch, fl_inv, fl_response.rows, 1,
                            fl_response.quantity_needed, <<>>).allocated

C7_LockStep ==
    /\ \A b \in DOMAIN dj_batch :
         dj_batch[b].current_quantity = dj_inv[<<b, StoredAt(b)>>]
    /\ \A i \in DOMAIN fl_inv :
         fl_inv[i].quantity_on_hand = fl_batch[fl_inv[i].batch_id].current_quantity

\* C11: under concurrent expiry scans no batch ever has two active expiry
\* alerts: (type, target) uniqueness of active alerts is enforced.
C11_UniqueActiveAlert ==
    \A b \in Batches :
        Cardinality({ i \in 1..Len(dj_alerts) :
                        /\ dj_alerts[i].alert_type = "expiry_warning"
                        /\ dj_alerts[i].batch = b
                        /\ dj_alerts[i].status = "active" }) <= 1

\* C12: an allocation takes quantity only from batches of the requested
\* product that are in stock and hold something, and in FEFO mode only from
\* batches that expire after today; nothing is taken from an empty batch.
C12_Eligible ==
    /\ dj_result.kind = "fulfil" =>
         \A i \in 1..Len(dj_result.result.allocations) :
            LET a == dj_result.result.allocations[i]
            IN  /\ a.qty > 0
                /\ dj_batch[a.batch].product = dj_result.product
                /\ dj_batch[a.batch].status = "in_stock"
                /\ dj_result.method = "fefo" =>
                      dj_batch[a.batch].expiration_date > Today
    /\ fl_response.kind = "allocate" =>
         \A i \in 1..Len(fl_response.returned) :
            LET a == fl_response.returned[i]
            IN  /\ a.qty > 0
                /\ fl_batch[a.batch].product = fl_response.product_id
                /\ fl_batch[a.batch].status = "In Stock"
                /\ fl_response.method = "FEFO" =>
                      fl_batch[a.batch].expiration_date > Today

\* C13: for every committed order, the order total equals the sum of the line
\* totals of all its order lines.
C13_OrderTotal ==
    \A o \in 1..Len(fl_orders) :
        fl_orders[o].total_amount_x200 = SumLineTotals(fl_items, fl_orders[o].order_id)

C15_InvalidRejected ==
    [][ /\ (/\ fl_response = NoResult
            /\ fl_response'.kind = "order"
            /\ \E i \in 1..Len(fl_response'.lines) : fl_response'.lines[i].quantity <= 0)
           => /\ fl_response'.status = 400
              /\ UNCHANGED <<fl_batch, fl_inv, fl_orders, fl_items>>
        /\ (/\ fl_response = NoResult
            /\ fl_response'.kind = "allocate"
            /\ fl_response'.quantity_needed <= 0)
           => /\ fl_response'.returned = <<>>
              /\ UNCHANGED <<fl_batch, fl_inv, fl_orders, fl_items>> ]_vars

\* C16: an error on one inventory row of an alert sweep is skipped: every
\* other row the sweep was due to evaluate has its alert afterwards.
C16_SweepSkipsBadRow ==
    al_last.kind \in {"check_low_stock_alerts", "run_alert_checks"} =>
        \A i \in 1..Len(al_last.rows) :
            LET row == al_last.rows[i]
            IN  dj_low_stock_priority(dj_inv[row], reorder_point(row)) # "TypeError"
                    => dj_existing_low_stock(dj_alerts, row[1])

\* C17: a batch changes status only along received -> in stock ->
\* {dispatched, expired, recalled}; in particular a dispatched or expired
\* batch never becomes in stock (selectable by the allocator) again.
C17_StatusTransitions ==
    [][ \A b \in Batches :
          /\ backend = "django_sweeps" =>
               \/ dj_batch'[b].status = dj_batch[b].status
               \/ /\ dj_batch[b].status = "received"
                  /\ dj_batch'[b].status = "in_stock"
               \/ /\ dj_batch[b].status = "in_stock"
                  /\ dj_batch'[b].status \in {"dispatched", "expired", "recalled"}
          /\ backend = "flask_batches" =>
               \/ fl_batch'[b].status = fl_batch[b].status
               \/ /\ fl_batch[b].status = "Received"
                  /\ fl_batch'[b].status = "In Stock"
               \/ /\ fl_batch[b].status = "In Stock"
                  /\ fl_batch'[b].status \in {"Dispatched", "Expired", "Recalled"} ]_vars

\* C18: the pricing row of the specific product takes precedence over the
\* retailer's general row, and a custom fixed price or custom discount
\* configured on the row replaces the tier discount entirely.
C18_TierPrecedence ==
    (pr_result.kind = "get_retailer_price" /\ backend = "django_tiers") =>
        LET table == pr_db.retailer_pricing
            specific == { i \in 1..Len(table) : table[i].product = pr_result.product }
            general == { i \in 1..Len(table) : table[i].product = NoProduct }
            rows == IF specific # {} THEN {table[i] : i \in specific}
                    ELSE {table[i] : i \in general}
        IN  \A row \in rows :
              pr_result.final_price =
                IF row.custom_price # NoValue THEN row.custom_price * PriceScale
                ELSE IF row.custom_discount_percentage # NoValue
                THEN pr_result.base_price
                     - (pr_result.base_price \div 100) * row.custom_discount_percentage
                ELSE pr_result.base_price
                     - (pr_result.base_price \div 100) * row.tier_discount_percentage

\* C19: a retailer with no pricing tier is priced with a zero tier discount:
\* where no dynamic rule, volume bonus or batch discount applies, the quoted
\* discount is 0 and the final price is the base price.
C19_NoTierZeroDiscount ==
    /\ (/\ pr_result.kind = "calculate_price"
        /\ ~HasTier(pr_result.retailer_id)
        /\ ~pr_result.has_batch_discount)
       => /\ pr_result.discount_percentage_x2 = 0
          /\ pr_result.discounted_price_x40000 = pr_result.base_price * 200 * 200
    /\ (/\ pr_result.kind = "calculate_dynamic_pricing"
        /\ ~HasTier(pr_result.retailer_id)
        /\ pr_result.quantity < 100)
       => /\ pr_result.discount_percentage_x2 = 0
          /\ pr_result.final_price_x200 = pr_result.base_price * 200
    /\ (/\ pr_result.kind = "get_retailer_price"
        /\ pr_retailer_pricing(pr_db.retailer_pricing, pr_result.product) = <<>>
        /\ \A i \in 1..Len(pr_result.applied_discounts) :
              pr_result.applied_discounts[i].type # "dynamic_discount")
       => pr_result.final_price = pr_result.base_price

\* C20: after a low-stock check every inventory row that has a reorder point
\* and holds no more than it has an active low-stock alert (for the Django
\* check an alert of the row's batch, for the Flask check an alert of the
\* row's product).
C20_LowStockAlerted ==
    /\ al_last.kind = "check_low_stock_alerts" =>
         \A row \in DOMAIN dj_inv :
            (reorder_point(row) # NoReorderPoint /\ dj_inv[row] <= reorder_point(row))
                => dj_existing_low_stock(dj_alerts, row[1])
    /\ al_last.kind = "fl_check_low_stock_alerts" =>
         \A i \in DOMAIN fl_inv :
            fl_inv[i].quantity_on_hand <= fl_inv[i].reorder_point
                => fl_existing_alert(fl_alerts, "Low Stock",
                                     fl_batch[fl_inv[i].batch_id].product, "Products")

\* C21: the expiring-batches query returns exactly the in-stock batches with
\* current_quantity > 0 whose expiration date lies in [today, today + days],
\* both ends included, in ascending order of expiration date.
C21_ExpiringWindow ==
    /\ al_last.kind = "check_expiry_alerts" =>
         /\ { al_last.expiring[i] : i \in 1..Len(al_last.expiring) }
              = { b \in Batches : /\ dj_batch[b].status = "in_stock"
                                  /\ dj_batch[b].current_quantity > 0
                                  /\ dj_batch[b].expiration_date >= Today
                                  /\ dj_batch[b].expiration_date
                                       <= Today + al_last.days_ahead }
         /\ \A i, j \in 1..Len(al_last.expiring) :
              i < j => dj_batch[al_last.expiring[i]].expiration_date
                         <= dj_batch[al_last.expiring[j]].expiration_date
    /\ al_last.kind = "check_expiration_alerts" =>
         /\ { al_last.expiring[i] : i \in 1..Len(al_last.expiring) }
              = { b \in Batches : /\ fl_batch[b].status = "In Stock"
                                  /\ fl_batch[b].current_quantity > 0
                                  /\ fl_batch[b].expiration_date >= Today
                                  /\ fl_batch[b].expiration_date
                                       <= Today + al_last.days_ahead }
         /\ \A i, j \in 1..Len(al_last.expiring) :
              i < j => fl_batch[al_last.expiring[i]].expiration_date
                         <= fl_batch[al_last.expiring[j]].expiration_date

\* C22: the two triggers of a rule are evaluated separately: the rule's volume
\* discount is applied whenever it has a volume trigger and the quantity
\* reaches it, and its expiry discount whenever it has an expiry trigger and
\* a batch is supplied that is within the threshold.  A rule therefore shows
\* among the applied discounts exactly when one of its triggers fires.
C22_TriggersSeparate ==
    pr_result.kind = "get_retailer_price" =>
        \A k \in 1..Len(pr_db.rules) :
            LET rule == pr_db.rules[k]
                volume == /\ rule.volume_tier_quantity # 0
                          /\ rule.volume_discount_percentage # 0
                          /\ pr_result.quantity >= rule.volume_tier_quantity
                expiry == /\ rule.apply_to_expiring_batches
                          /\ rule.expiry_discount_percentage # 0
                          /\ pr_result.days # NoBatch
                          /\ pr_result.days <= rule.expiry_threshold_days
            IN  (volume \/ expiry) <=>
                    \E i \in 1..Len(pr_result.applied_discounts) :
                        /\ pr_result.applied_discounts[i].type = "dynamic_discount"
                        /\ pr_result.applied_discounts[i].rule = k

C24_FinalIsBaseMinusListed ==
    pr_result.kind = "get_retailer_price" =>
        LET applied == pr_result.applied_discounts
            amounts == [j \in 1..Len(applied) |->
                          [qty |-> applied[j].discount_amount]]
        IN  /\ pr_result.final_price
                 = pr_result.base_price - SumTaken(amounts)
            /\ pr_result.total_discount
                 = pr_result.base_price - pr_result.final_price

\* C25: allocation is deterministic: batches are visited in ascending order of
\* the ordering key with ties broken by batch identifier, so the same stored
\* state and request always give the same visiting order and plan.
C25_TiesByBatchId ==
    dj_result.kind = "fulfil" =>
        LET visited == dj_result.available
            key(b) == IF dj_result.method = "fifo"
                      THEN dj_batch[b].production_date
                      ELSE dj_batch[b].expiration_date
        IN  \A i \in 1..(Len(visited) - 1) :
               \/ key(visited[i]) < key(visited[i + 1])
               \/ /\ key(visited[i]) = key(visited[i + 1])
                  /\ visited[i] < visited[i + 1]

C27_PlanEntries ==
    [][ /\ (fl_response = NoResult /\ fl_response'.kind = "allocate") =>
           LET plan == fl_response'.returned
           IN  \A i \in 1..Len(plan) :
                  /\ plan[i].qty > 0
                  /\ plan[i].qty <= fl_batch[plan[i].batch].current_quantity
                  /\ \A j \in 1..Len(plan) :
                        plan[j].batch = plan[i].batch => j = i
        /\ (dj_result = NoResult /\ dj_result'.kind = "fulfil") =>
           LET plan == dj_result'.result.allocations
           IN  \A i \in 1..Len(plan) :
                  /\ plan[i].qty > 0
                  /\ plan[i].qty <= dj_batch[plan[i].batch].current_quantity
                  /\ \A j \in 1..Len(plan) :
                        plan[j].batch = plan[i].batch => j = i
      ]_vars

\* C28: with a tier or custom discount and dynamic rules whose percentages
\* each lie between 0 and 100, the final unit price get_retailer_price
\* returns is never negative, also for a rule that carries both an expiry and
\* a volume discount.
C28_PriceNonNegative ==
    pr_result.kind = "get_retailer_price" => pr_result.final_price >= 0

\* C29: when check_expired_batches has run, no batch that is in_stock, holds
\* stock and expired before today remains: each of them is now expired and
\* has an active batch_expired alert, also when such an alert was already
\* there before the run.
C29_ExpiredSwept ==
    al_last.kind = "check_expired_batches" =>
        /\ \A b \in Batches :
              ~(/\ dj_batch[b].status = "in_stock"
                /\ dj_batch[b].current_quantity > 0
                /\ dj_batch[b].expiration_date < Today)
        /\ \A k \in 1..Len(al_last.rows) :
              /\ dj_batch[al_last.rows[k]].status = "expired"
              /\ dj_existing_expired(dj_alerts, al_last.rows[k])

\* C30: acknowledge changes an alert's status only from active to
\* acknowledged; resolve and dismiss change it only from active or
\* acknowledged; resolved and dismissed are final: whatever calls follow, such
\* an alert keeps its status and never becomes active again.
C30_AlertLifecycle ==
    [][ /\ Len(dj_alerts') = Len(dj_alerts)
        /\ \A i \in 1..Len(dj_alerts) :
              LET old == dj_alerts[i].status
                  new == dj_alerts'[i].status
              IN  /\ new \in STATUS_CHOICES
                  /\ old # new =>
                        \/ old = "active" /\ new = "acknowledged"
                        \/ /\ old \in {"active", "acknowledged"}
                           /\ new \in {"resolved", "dismissed"}
      ]_vars

\* One alert acknowledged, one resolved and one dismissed after having been
\* acknowledged.
C30_Witness ==
    /\ backend = "django_lifecycle"
    /\ \E i, j, k \in 1..Len(dj_alerts) :
          /\ dj_alerts[i].status = "acknowledged"
          /\ dj_alerts[j].status = "resolved"
          /\ dj_alerts[k].status = "dismissed"
          /\ dj_alerts[k].acknowledged_at
====
